---- MODULE Spec2Model ----
(***************************************************************************)
(* Model of 1.regression_modelling/scripts/1.train_models.py: the column   *)
(* categorisation loop, the generation of the shuffled predictors, and the *)
(* combined / individual training loops with their joblib dumps.           *)
(*                                                                         *)
(* Strings.  A Python string is modelled by its underscore-delimited parts *)
(* (what str.split("_") returns, so a string always has at least one part  *)
(* and no part holds an underscore); a part is a sequence of text chunks   *)
(* whose concatenation is the part.  The chunks used are chosen so that no *)
(* marker straddles two chunks: "m in part" is then "some chunk is m".     *)
(***************************************************************************)
EXTENDS Integers, Sequences, FiniteSets, TLC

VARIABLES columns, col_idx, nucleus_features, a647_features, gold_features,
          X, X_shuffled, shuffle_count, yaml_file, pc, idx, error,
          random_search, random_search_shuffled, fits, writes

vars == <<columns, col_idx, nucleus_features, a647_features, gold_features,
          X, X_shuffled, shuffle_count, yaml_file, pc, idx, error,
          random_search, random_search_shuffled, fits, writes>>

(* ------------------------------ bounds --------------------------------- *)
MaxCols == 3
MaxParts == 5
NRows == 2

(* --------------------------- string helpers ---------------------------- *)
Range(s) == {s[i] : i \in DOMAIN s}

SeqsUpTo(S, n) == UNION {[1..k -> S] : k \in 0..n}

Distinct(s) == \A i, j \in DOMAIN s : i # j => s[i] # s[j]

\* marker in part  (Python substring test on one part)
Contains(marker, part) == \E i \in DOMAIN part : part[i] = marker

\* marker in column  (the markers hold no underscore, so a match lies in one part)
ColumnContains(marker, column) == \E k \in DOMAIN column : Contains(marker, column[k])

\* parts[k] with the source's 0-based index
Part(parts, k) == parts[k + 1]

\* column.startswith("Metadata_")
IsMetadata(column) == Len(column) >= 2 /\ column[1] = <<"Metadata">>

\* a + "_" + b on strings held as parts
Under(a, b) == a \o b

(* ------------------------------ inputs --------------------------------- *)
StainParts == {<<"DAPI">>, <<"A647">>, <<"GOLD">>, <<"X">>,
               <<"A647", "GOLD">>, <<"DAPI", "A647">>}

TypeParts == {<<"Correlation">>, <<"Location">>, <<"Intensity">>}

\* every name Nuclei_<type>_<p>_..._<p> of up to MaxParts parts, the bare names
\* without an underscore, and a metadata name
AllNames ==
    {<<<<"Nuclei">>>>, <<<<"Metadata">>>>, <<<<"Metadata">>, <<"Well">>>>}
    \cup {s \in UNION {[1..n -> StainParts \cup TypeParts \cup {<<"Nuclei">>}] : n \in 2..MaxParts} :
            /\ s[1] = <<"Nuclei">>
            /\ s[2] \in TypeParts
            /\ \A k \in 3..Len(s) : s[k] \in StainParts}

N(p) == <<<<"Nuclei">>>> \o p

\* the names the multi-column tables are built from
CoreNames ==
    { <<<<"Metadata">>, <<"Well">>>>,
      <<<<"Nuclei">>>>,
      N(<<<<"Correlation">>, <<"X">>, <<"DAPI">>, <<"A647">>>>),
      N(<<<<"Correlation">>, <<"X">>, <<"DAPI">>, <<"DAPI">>>>),
      N(<<<<"Location">>, <<"X">>, <<"X">>, <<"DAPI">>>>),
      N(<<<<"Location">>, <<"X">>, <<"X">>, <<"X">>>>),
      N(<<<<"Intensity">>, <<"X">>, <<"GOLD">>>>),
      N(<<<<"Intensity">>, <<"X">>, <<"A647", "GOLD">>>>),
      N(<<<<"Intensity">>, <<"A647">>>>) }

ExampleColumns ==
    << <<<<"Metadata">>, <<"Well">>>>,
       <<<<"Nuclei">>, <<"Correlation">>, <<"DAPI">>, <<"A647">>>>,
       <<<<"Nuclei">>, <<"Location">>, <<"Center">>, <<"GOLD">>>>,
       <<<<"Cells">>, <<"AreaShape">>, <<"DAPI">>>> >>

\* training_df.columns: distinct names
ColumnLists ==
    {s \in SeqsUpTo(CoreNames, MaxCols) : Distinct(s)}
    \cup {<<n>> : n \in AllNames}
    \cup {ExampleColumns}

(* --------------------------- output paths ------------------------------ *)
model_dir == <<"models">>
final_dir == model_dir \o <<"final">>
shuffled_dir == model_dir \o <<"shuffled_baseline">>
all_features_dir == model_dir \o <<"all_features">>

\* directory / filename
PathJoin(dir, filename) == [dir |-> dir, name |-> filename]

\* the stain name left out of the combined filename
CombinedModelFilename_NoStain(stain_name) ==
    PathJoin(all_features_dir, Under(<<<<"combined">>>>, <<<<"tuned">>, <<"model.joblib">>>>))

\* all_features_dir / f"combined_{stain_name}_tuned_model.joblib"
CombinedModelFilename(stain_name) ==
    PathJoin(all_features_dir,
             Under(Under(<<<<"combined">>>>, <<<<stain_name>>>>), <<<<"tuned">>, <<"model.joblib">>>>))

\* all_features_dir / f"combined_{stain_name}_shuffled_tuned_model.joblib"
CombinedShuffledModelFilename(stain_name) ==
    PathJoin(all_features_dir,
             Under(Under(<<<<"combined">>>>, <<<<stain_name>>>>),
                   <<<<"shuffled">>, <<"tuned">>, <<"model.joblib">>>>))

\* final_dir / f"{feature}_tuned_model.joblib"
ModelFilename(feature) ==
    PathJoin(final_dir, Under(feature, <<<<"tuned">>, <<"model.joblib">>>>))

\* the shuffled model of a feature put in final_dir
ShuffledModelFilename_FinalDir(feature) ==
    PathJoin(final_dir, Under(feature, <<<<"shuffled">>, <<"tuned">>, <<"model.joblib">>>>))

\* shuffled_dir / f"{feature}_shuffled_tuned_model.joblib"
ShuffledModelFilename(feature) ==
    PathJoin(shuffled_dir, Under(feature, <<<<"shuffled">>, <<"tuned">>, <<"model.joblib">>>>))

(* ------------------------- feature categorisation ---------------------- *)
Groups(n, a, g) == [nucleus |-> n, a647 |-> a, gold |-> g]

\* lines 76-85: the branch of a correlation feature
CorrelationBranch(column, parts, gr) ==
    IF ColumnContains("DAPI", column)
    THEN IF Len(parts) > 4 /\ (Contains("A647", Part(parts, 3)) \/ Contains("A647", Part(parts, 4)))
         THEN [gr EXCEPT !.a647 = Append(@, column)]
         ELSE IF Len(parts) > 4 /\ (Contains("GOLD", Part(parts, 3)) \/ Contains("GOLD", Part(parts, 4)))
         THEN [gr EXCEPT !.gold = Append(@, column)]
         ELSE gr
    ELSE IF Len(parts) > 3 /\ Contains("A647", Part(parts, 3))
         THEN [gr EXCEPT !.a647 = Append(@, column)]
         ELSE IF Len(parts) > 3 /\ Contains("GOLD", Part(parts, 3))
         THEN [gr EXCEPT !.gold = Append(@, column)]
         ELSE gr

\* the stain tests on parts[3] as independent ifs instead of one elif chain
NonCorrelationBranch_IndependentIfs(column, parts, gr) ==
    IF Len(parts) > 4 /\ Contains("Location", Part(parts, 1))
    THEN IF Part(parts, 4) = <<"DAPI">>
         THEN [gr EXCEPT !.nucleus = Append(@, column)]
         ELSE IF Part(parts, 4) = <<"A647">>
         THEN [gr EXCEPT !.a647 = Append(@, column)]
         ELSE IF Part(parts, 4) = <<"GOLD">>
         THEN [gr EXCEPT !.gold = Append(@, column)]
         ELSE gr
    ELSE LET a == IF Len(parts) > 3 /\ Contains("DAPI", Part(parts, 3))
                  THEN [gr EXCEPT !.nucleus = Append(@, column)] ELSE gr
             b == IF Len(parts) > 3 /\ Contains("A647", Part(parts, 3))
                  THEN [a EXCEPT !.a647 = Append(@, column)] ELSE a
             c == IF Len(parts) > 3 /\ Contains("GOLD", Part(parts, 3))
                  THEN [b EXCEPT !.gold = Append(@, column)] ELSE b
         IN IF c = gr THEN [gr EXCEPT !.nucleus = Append(@, column)] ELSE c

\* the Location branch closed by the default of the other branch
NonCorrelationBranch_LocationDefault(column, parts, gr) ==
    IF Len(parts) > 4 /\ Contains("Location", Part(parts, 1)) /\ Part(parts, 4) = <<"DAPI">>
    THEN [gr EXCEPT !.nucleus = Append(@, column)]
    ELSE IF Len(parts) > 4 /\ Contains("Location", Part(parts, 1)) /\ Part(parts, 4) = <<"A647">>
    THEN [gr EXCEPT !.a647 = Append(@, column)]
    ELSE IF Len(parts) > 4 /\ Contains("Location", Part(parts, 1)) /\ Part(parts, 4) = <<"GOLD">>
    THEN [gr EXCEPT !.gold = Append(@, column)]
    ELSE IF Len(parts) > 4 /\ Contains("Location", Part(parts, 1))
    THEN [gr EXCEPT !.nucleus = Append(@, column)]
    ELSE IF Len(parts) > 3 /\ Contains("DAPI", Part(parts, 3))
    THEN [gr EXCEPT !.nucleus = Append(@, column)]
    ELSE IF Len(parts) > 3 /\ Contains("A647", Part(parts, 3))
    THEN [gr EXCEPT !.a647 = Append(@, column)]
    ELSE IF Len(parts) > 3 /\ Contains("GOLD", Part(parts, 3))
    THEN [gr EXCEPT !.gold = Append(@, column)]
    ELSE [gr EXCEPT !.nucleus = Append(@, column)]

\* lines 87-101: the branch of the other features
NonCorrelationBranch(column, parts, gr) ==
    IF Len(parts) > 4 /\ Contains("Location", Part(parts, 1))
    THEN IF Part(parts, 4) = <<"DAPI">>
         THEN [gr EXCEPT !.nucleus = Append(@, column)]
         ELSE IF Part(parts, 4) = <<"A647">>
         THEN [gr EXCEPT !.a647 = Append(@, column)]
         ELSE IF Part(parts, 4) = <<"GOLD">>
         THEN [gr EXCEPT !.gold = Append(@, column)]
         ELSE gr
    ELSE IF Len(parts) > 3 /\ Contains("DAPI", Part(parts, 3))
         THEN [gr EXCEPT !.nucleus = Append(@, column)]
         ELSE IF Len(parts) > 3 /\ Contains("A647", Part(parts, 3))
         THEN [gr EXCEPT !.a647 = Append(@, column)]
         ELSE IF Len(parts) > 3 /\ Contains("GOLD", Part(parts, 3))
         THEN [gr EXCEPT !.gold = Append(@, column)]
         ELSE [gr EXCEPT !.nucleus = Append(@, column)]

\* parts[1] of a name without an underscore: IndexError
RaisesIndexError(column) == ~IsMetadata(column) /\ Len(column) < 2

\* lines 72-101: the body of the loop for one column that does not raise
Categorize(column, gr) ==
    IF IsMetadata(column)
    THEN gr
    ELSE IF Contains("Correlation", Part(column, 1))
         THEN CorrelationBranch(column, column, gr)
         ELSE NonCorrelationBranch(column, column, gr)

(* ------------------------------ matrices ------------------------------- *)
Perms(n) == {p \in [1..n -> 1..n] : \A i, j \in 1..n : i # j => p[i] # p[j]}

\* training_df[cols]: the named columns, each holding its rows in table order
Frame(cols) == [columns |-> cols, values |-> [c \in 1..Len(cols) |-> [r \in 1..NRows |-> r]]]

NoFrame == [columns |-> <<>>, values |-> <<>>]

\* np.random.shuffle on every column of a copy: column c is reordered by sh[c]
Shuffled(frame, sh) ==
    [columns |-> frame.columns,
     values |-> [c \in DOMAIN frame.values |-> [r \in 1..NRows |-> frame.values[c][sh[c][r]]]]]

NoSearch == [y |-> <<>>, X |-> NoFrame, fitted |-> FALSE]

\* RandomizedSearchCV(...).fit(X, y): the search, holding its best estimator
Search(x, y) == [y |-> y, X |-> x, fitted |-> TRUE]

\* stain_feature_sets
stain_feature_sets == <<[name |-> "A647", features |-> a647_features],
                        [name |-> "GOLD", features |-> gold_features]>>

(* ------------------------------- Init ---------------------------------- *)
Init ==
    /\ columns \in ColumnLists
    /\ col_idx = 1
    /\ nucleus_features = <<>>
    /\ a647_features = <<>>
    /\ gold_features = <<>>
    /\ X = NoFrame
    /\ X_shuffled = NoFrame
    /\ shuffle_count = 0
    /\ yaml_file = FALSE
    /\ pc = "classify"
    /\ idx = 1
    /\ error = "none"
    /\ random_search = NoSearch
    /\ random_search_shuffled = NoSearch
    /\ fits = <<>>
    /\ writes = <<>>

\* an uncaught exception ends the script
Raise(kind) == pc' = "aborted" /\ error' = kind

trainVars == <<idx, random_search, random_search_shuffled, fits, writes>>
groupVars == <<nucleus_features, a647_features, gold_features>>
prepVars == <<X, X_shuffled, shuffle_count, yaml_file>>

\* lines 71-101: one iteration of the categorisation loop
ClassifyColumn ==
    /\ pc = "classify"
    /\ col_idx <= Len(columns)
    /\ LET column == columns[col_idx]
           gr == Categorize(column, Groups(nucleus_features, a647_features, gold_features))
       IN IF RaisesIndexError(column)
          THEN /\ Raise("IndexError")
               /\ UNCHANGED <<col_idx, groupVars>>
          ELSE /\ nucleus_features' = gr.nucleus
               /\ a647_features' = gr.a647
               /\ gold_features' = gr.gold
               /\ col_idx' = col_idx + 1
               /\ UNCHANGED <<pc, error>>
    /\ UNCHANGED <<columns, prepVars, trainVars>>

\* lines 105-110: X and the shuffled copy, made once the loop is over
PrepareX ==
    /\ pc = "classify"
    /\ col_idx > Len(columns)
    /\ X' = Frame(nucleus_features)
    /\ \E sh \in [1..Len(nucleus_features) -> Perms(NRows)] :
          X_shuffled' = Shuffled(Frame(nucleus_features), sh)
    /\ shuffle_count' = shuffle_count + 1
    /\ pc' = "yaml"
    /\ UNCHANGED <<columns, col_idx, groupVars, yaml_file, error, trainVars>>

\* lines 113-131: features_dict.yml
SaveFeaturesDict ==
    /\ pc = "yaml"
    /\ \/ /\ yaml_file' = TRUE
          /\ pc' = "combined_loop"
          /\ UNCHANGED error
       \/ /\ Raise("OSError")
          /\ UNCHANGED yaml_file
    /\ UNCHANGED <<columns, col_idx, groupVars, X, X_shuffled, shuffle_count, trainVars>>

fixedVars == <<columns, col_idx, groupVars, prepVars>>

\* a for statement over seq: enter the body or leave the loop
ForLoop(here, seq, body, after) ==
    /\ pc = here
    /\ pc' = IF idx <= Len(seq) THEN body ELSE after
    /\ idx' = IF idx <= Len(seq) THEN idx ELSE 1
    /\ UNCHANGED <<fixedVars, error, random_search, random_search_shuffled, fits, writes>>

\* random_search.fit(x, y): the fit is attempted, and returns or raises
FitStep(here, x, y, next) ==
    /\ pc = here
    /\ fits' = Append(fits, [X |-> x, y |-> y, shuffled |-> FALSE])
    /\ \/ /\ random_search' = Search(x, y)
          /\ pc' = next
          /\ UNCHANGED error
       \/ /\ Raise("FitError")
          /\ UNCHANGED random_search
    /\ UNCHANGED <<fixedVars, idx, random_search_shuffled, writes>>

\* the shuffled copy made again for each shuffled fit
FitShuffledStep_Reshuffle(here, x, y, next) ==
    /\ pc = here
    /\ \E sh \in [1..Len(nucleus_features) -> Perms(NRows)] :
          /\ X_shuffled' = Shuffled(X, sh)
          /\ fits' = Append(fits, [X |-> X_shuffled', y |-> y, shuffled |-> TRUE])
          /\ \/ /\ random_search_shuffled' = Search(X_shuffled', y)
                /\ pc' = next
                /\ UNCHANGED error
             \/ /\ Raise("FitError")
                /\ UNCHANGED random_search_shuffled
    /\ shuffle_count' = shuffle_count + 1
    /\ UNCHANGED <<columns, col_idx, groupVars, X, yaml_file, idx, random_search, writes>>

\* random_search_shuffled.fit(x, y)
FitShuffledStep(here, x, y, next) ==
    /\ pc = here
    /\ fits' = Append(fits, [X |-> x, y |-> y, shuffled |-> TRUE])
    /\ \/ /\ random_search_shuffled' = Search(x, y)
          /\ pc' = next
          /\ UNCHANGED error
       \/ /\ Raise("FitError")
          /\ UNCHANGED random_search_shuffled
    /\ UNCHANGED <<fixedVars, idx, random_search, writes>>

\* joblib.dump(estimator, path): the file is written, or the dump raises
DumpStep(here, estimator, path, next, nextIdx) ==
    /\ pc = here
    /\ \/ /\ writes' = Append(writes, [path |-> path, estimator |-> estimator])
          /\ pc' = next
          /\ idx' = nextIdx
          /\ UNCHANGED error
       \/ /\ Raise("OSError")
          /\ UNCHANGED <<writes, idx>>
    /\ UNCHANGED <<fixedVars, random_search, random_search_shuffled, fits>>

(* lines 180-203: the combined models *)
CombinedLoop == ForLoop("combined_loop", stain_feature_sets, "combined_fit", "a647_loop")

CombinedFit ==
    /\ idx <= Len(stain_feature_sets)
    /\ FitStep("combined_fit", X, stain_feature_sets[idx].features, "combined_dump")

CombinedDump ==
    /\ idx <= Len(stain_feature_sets)
    /\ DumpStep("combined_dump", random_search,
                CombinedModelFilename(stain_feature_sets[idx].name), "combined_fit_shuffled", idx)

CombinedFitShuffled ==
    /\ idx <= Len(stain_feature_sets)
    /\ FitShuffledStep("combined_fit_shuffled", X_shuffled,
                       stain_feature_sets[idx].features, "combined_dump_shuffled")

CombinedDumpShuffled ==
    /\ idx <= Len(stain_feature_sets)
    /\ DumpStep("combined_dump_shuffled", random_search_shuffled,
                CombinedShuffledModelFilename(stain_feature_sets[idx].name), "combined_loop", idx + 1)

(* lines 216-238: the individual A647 models *)
A647Loop == ForLoop("a647_loop", a647_features, "a647_fit", "gold_loop")

\* a failing fit caught per feature: the loop goes on with the next feature
A647Fit_Isolated ==
    /\ idx <= Len(a647_features)
    /\ pc = "a647_fit"
    /\ fits' = Append(fits, [X |-> X, y |-> <<a647_features[idx]>>, shuffled |-> FALSE])
    /\ \/ /\ random_search' = Search(X, <<a647_features[idx]>>)
          /\ pc' = "a647_dump"
          /\ UNCHANGED <<error, idx>>
       \/ /\ error' = "FitError"
          /\ pc' = "a647_loop"
          /\ idx' = idx + 1
          /\ UNCHANGED random_search
    /\ UNCHANGED <<fixedVars, random_search_shuffled, writes>>

A647Fit ==
    /\ idx <= Len(a647_features)
    /\ FitStep("a647_fit", X, <<a647_features[idx]>>, "a647_dump")

A647Dump ==
    /\ idx <= Len(a647_features)
    /\ DumpStep("a647_dump", random_search, ModelFilename(a647_features[idx]),
                "a647_fit_shuffled", idx)

A647FitShuffled ==
    /\ idx <= Len(a647_features)
    /\ FitShuffledStep("a647_fit_shuffled", X_shuffled, <<a647_features[idx]>>, "a647_dump_shuffled")

A647DumpShuffled ==
    /\ idx <= Len(a647_features)
    /\ DumpStep("a647_dump_shuffled", random_search_shuffled,
                ShuffledModelFilename(a647_features[idx]), "a647_loop", idx + 1)

(* lines 248-269: the individual GOLD models *)
GoldLoop == ForLoop("gold_loop", gold_features, "gold_fit", "done")

GoldFit ==
    /\ idx <= Len(gold_features)
    /\ FitStep("gold_fit", X, <<gold_features[idx]>>, "gold_dump")

GoldDump ==
    /\ idx <= Len(gold_features)
    /\ DumpStep("gold_dump", random_search, ModelFilename(gold_features[idx]),
                "gold_fit_shuffled", idx)

GoldFitShuffled ==
    /\ idx <= Len(gold_features)
    /\ FitShuffledStep("gold_fit_shuffled", X_shuffled, <<gold_features[idx]>>, "gold_dump_shuffled")

GoldDumpShuffled ==
    /\ idx <= Len(gold_features)
    /\ DumpStep("gold_dump_shuffled", random_search_shuffled,
                ShuffledModelFilename(gold_features[idx]), "gold_loop", idx + 1)

Next ==
    \/ ClassifyColumn
    \/ PrepareX
    \/ SaveFeaturesDict
    \/ CombinedLoop
    \/ CombinedFit
    \/ CombinedDump
    \/ CombinedFitShuffled
    \/ CombinedDumpShuffled
    \/ A647Loop
    \/ A647Fit
    \/ A647Dump
    \/ A647FitShuffled
    \/ A647DumpShuffled
    \/ GoldLoop
    \/ GoldFit
    \/ GoldDump
    \/ GoldFitShuffled
    \/ GoldDumpShuffled

Spec == Init /\ [][Next]_vars

(* ======================= properties of the run ========================= *)
Count(c, s) == Cardinality({i \in DOMAIN s : s[i] = c})

GroupCount(c) == Count(c, nucleus_features) + Count(c, a647_features) + Count(c, gold_features)

\* the categorisation loop has run over every column
LoopOver == col_idx > Len(columns)

\* the columns whose iteration of the loop has completed
Processed == {columns[i] : i \in 1..(col_idx - 1)}

TargetMarkers == {"A647", "GOLD"}

\* C1: once the loop is over, every non-metadata column is in exactly one of the
\* three lists, exactly once.
C1_EveryColumnInExactlyOneGroup ==
    LoopOver => \A i \in DOMAIN columns :
                   ~IsMetadata(columns[i]) => GroupCount(columns[i]) = 1

\* C2: the example table is categorised as the specification's scenario states:
\* Target-A holds the correlation column, Target-B the Location column, Nucleus
\* the AreaShape column.
C2_ExampleAsStated ==
    (LoopOver /\ columns = ExampleColumns) =>
        /\ a647_features = <<ExampleColumns[2]>>
        /\ gold_features = <<ExampleColumns[3]>>
        /\ nucleus_features = <<ExampleColumns[4]>>

\* C3: at every point of the run no column name is in more than one of the three
\* lists, and none is in a list twice.
C3_NeverInTwoGroups ==
    /\ Range(nucleus_features) \cap Range(a647_features) = {}
    /\ Range(nucleus_features) \cap Range(gold_features) = {}
    /\ Range(a647_features) \cap Range(gold_features) = {}
    /\ \A i \in DOMAIN columns : GroupCount(columns[i]) <= 1

C3_Witness ==
    /\ LoopOver
    /\ a647_features # <<>>
    /\ gold_features # <<>>
    /\ \E i \in DOMAIN columns : \A m \in TargetMarkers : ColumnContains(m, columns[i])

\* every fit so far was given the X or X_shuffled of now, made once
ShuffledOnceInv ==
    /\ shuffle_count <= 1
    /\ (fits # <<>>) => shuffle_count = 1
    /\ \A i \in DOMAIN fits :
          IF fits[i].shuffled THEN fits[i].X = X_shuffled ELSE fits[i].X = X
    /\ random_search_shuffled.fitted => random_search_shuffled.X = X_shuffled

\* C4: X_shuffled is generated exactly once, before any fit, and is not changed
\* afterwards: every shuffled fit of the run is given the same X_shuffled.
C4_ShuffledGeneratedOnce ==
    /\ []ShuffledOnceInv
    /\ [][shuffle_count = 1 => (X_shuffled' = X_shuffled /\ shuffle_count' = 1)]_vars

C4_Witness ==
    /\ pc = "done"
    /\ Cardinality({i \in DOMAIN fits : fits[i].shuffled}) >= 4
    /\ X_shuffled # X

Tuned == <<<<"tuned">>, <<"model.joblib">>>>
ShuffledTuned == <<<<"shuffled">>, <<"tuned">>, <<"model.joblib">>>>

WrittenPaths == {writes[i].path : i \in DOMAIN writes}

ExpectedCombined ==
    {[dir |-> <<"models", "all_features">>, name |-> <<<<"combined">>, <<st>>>> \o suffix] :
        st \in {"A647", "GOLD"}, suffix \in {Tuned, ShuffledTuned}}

ExpectedFinal ==
    {[dir |-> <<"models", "final">>, name |-> f \o Tuned] :
        f \in Range(a647_features) \cup Range(gold_features)}

ExpectedShuffled ==
    {[dir |-> <<"models", "shuffled_baseline">>, name |-> f \o ShuffledTuned] :
        f \in Range(a647_features) \cup Range(gold_features)}

\* C5: a run that completes has written exactly the four combined files of
\* all_features/ (each a model of the whole stain list), one tuned model per target
\* column in final/ and one shuffled tuned model per target column in
\* shuffled_baseline/: 2 * (|Target-A| + |Target-B|) individual files.
C5_FilesWritten ==
    pc = "done" =>
        /\ WrittenPaths = ExpectedCombined \cup ExpectedFinal \cup ExpectedShuffled
        /\ Cardinality(WrittenPaths \cap ExpectedCombined) = 4
        /\ Cardinality(WrittenPaths \ ExpectedCombined)
              = 2 * (Len(a647_features) + Len(gold_features))
        /\ \A i \in DOMAIN writes :
              /\ writes[i].estimator.fitted
              /\ writes[i].path \in ExpectedCombined =>
                    writes[i].estimator.y = (IF writes[i].path.name[2] = <<"A647">>
                                             THEN a647_features ELSE gold_features)
              /\ writes[i].path \in ExpectedFinal =>
                    writes[i].estimator.X = X /\ writes[i].path.name = writes[i].estimator.y[1] \o Tuned
              /\ writes[i].path \in ExpectedShuffled =>
                    /\ writes[i].estimator.X = X_shuffled
                    /\ writes[i].path.name = writes[i].estimator.y[1] \o ShuffledTuned

C5_Witness ==
    /\ pc = "done"
    /\ Len(a647_features) + Len(gold_features) >= 2
    /\ nucleus_features # <<>>

\* C6: no dump of a run writes a path that an earlier dump of the run wrote.
C6_PathsWrittenOnce ==
    \A i, j \in DOMAIN writes : i # j => writes[i].path # writes[j].path

C6_Witness ==
    /\ pc = "done"
    /\ a647_features # <<>>
    /\ gold_features # <<>>

\* C7: a failing fit ends the run: from then on no fit is attempted and no file is
\* written, and what was written stays.
C7_FitFailureIsFatal ==
    /\ [](error = "FitError" => pc = "aborted")
    /\ [][error = "FitError" => (fits' = fits /\ writes' = writes /\ error' = error)]_vars

C7_Witness ==
    /\ error = "FitError"
    /\ pc = "aborted"
    /\ Len(writes) >= 5
    /\ Len(writes) < 4 + 2 * (Len(a647_features) + Len(gold_features))

IsCorrelationType(c) == Len(c) >= 2 /\ Contains("Correlation", c[2])

IsLocationType(c) == Len(c) >= 2 /\ Contains("Location", c[2])

\* the target-stain rules of a correlation-type name: with DAPI in the name a target
\* marker in part 3 or 4 of a name of 5 parts or more, else one in part 3
MatchesTargetRule(c) ==
    IF \E k \in DOMAIN c : Contains("DAPI", c[k])
    THEN Len(c) >= 5 /\ \E k \in {4, 5}, m \in TargetMarkers : Contains(m, c[k])
    ELSE Len(c) >= 4 /\ \E m \in TargetMarkers : Contains(m, c[4])

\* the stain rules of the other names: part 4 of a Location name of 5 parts or more
\* is exactly a marker, else part 3 holds a marker
MatchesStainRule(c) ==
    IF IsLocationType(c) /\ Len(c) >= 5
    THEN c[5] \in {<<"DAPI">>, <<"A647">>, <<"GOLD">>}
    ELSE Len(c) >= 4 /\ \E m \in TargetMarkers \cup {"DAPI"} : Contains(m, c[4])

InNoGroup(c) == GroupCount(c) = 0

InNucleusOnly(c) == Count(c, nucleus_features) = 1 /\ GroupCount(c) = 1

C9_ShortNamesDefaultToNucleus ==
    \A i \in DOMAIN columns :
        (~IsMetadata(columns[i]) /\ ~IsCorrelationType(columns[i]) /\ Len(columns[i]) < 4) =>
            /\ ~(error = "IndexError" /\ col_idx = i)
            /\ i < col_idx => InNucleusOnly(columns[i])

\* C10: no column with a part holding "A647" or "GOLD" is in nucleus_features, nor a
\* column of X or X_shuffled.
C10_NoTargetInPredictors ==
    \A c \in Range(nucleus_features) \cup Range(X.columns) \cup Range(X_shuffled.columns) :
        \A m \in TargetMarkers : ~ColumnContains(m, c)

TypeOK ==
    /\ pc \in {"classify", "yaml", "combined_loop", "combined_fit", "combined_dump",
               "combined_fit_shuffled", "combined_dump_shuffled", "a647_loop", "a647_fit",
               "a647_dump", "a647_fit_shuffled", "a647_dump_shuffled", "gold_loop", "gold_fit",
               "gold_dump", "gold_fit_shuffled", "gold_dump_shuffled", "done", "aborted"}
    /\ error \in {"none", "IndexError", "OSError", "FitError"}
    /\ col_idx \in 1..(Len(columns) + 1)
====
